---- MODULE Spec2Model ----
(***************************************************************************)
(* Model of kubie's src/settings.rs: Settings::path, Settings::load and    *)
(* Settings::get_kube_configs_paths, over an explicit filesystem and       *)
(* environment.                                                            *)
(*                                                                         *)
(* A file or directory name is a sequence of one-character strings, so    *)
(* that the glob matcher can read it character by character.  A path (and *)
(* a path string, and a glob pattern string) is a record                  *)
(*     [abs |-> BOOLEAN, comps |-> sequence of names]                      *)
(* i.e. the string cut at its "/" separators; only normalised strings (no *)
(* "//", no "." or ".." component, no trailing "/") are drawn.  The empty *)
(* string is [abs |-> FALSE, comps |-> <<>>].                             *)
(***************************************************************************)
EXTENDS Naturals, Sequences, FiniteSets

VARIABLES
    files,          \* the regular files of the filesystem (a set of paths)
    unreadable,     \* directories whose listing fails (read_dir error)
    kubeconfig,     \* the KUBECONFIG variable: [set, val], val cut at ":"
    xdg,            \* the XDG_CONFIG_HOME variable: [set, val]
    pc,             \* where the program is
    idx,            \* position of the loop the program is in
    settings_path,  \* Settings::path()'s result, <<>> before it returns
    settings,       \* the Settings record: [include, exclude]
    base,           \* the Settings as parsed or defaulted, before load's push
    paths,          \* the HashSet get_kube_configs_paths builds
    outcome         \* "none", "ok" or "err": the Result of the last call

vars == <<files, unreadable, kubeconfig, xdg, pc, idx, settings_path,
          settings, base, paths, outcome>>

----------------------------------------------------------------------------
(* Bounds of the model *)

\* the longest KUBECONFIG list drawn
MaxEntries == 2

----------------------------------------------------------------------------
(* Names *)

KUBIE_YAML == <<"k","u","b","i","e",".","y","a","m","l">>
KUBIE_YML == <<"k","u","b","i","e",".","y","m","l">>
KUBIE == <<"k","u","b","i","e">>
DOT_KUBE == <<".","k","u","b","e">>
DOT_CONFIG == <<".","c","o","n","f","i","g">>
CONFIG == <<"c","o","n","f","i","g">>
CONFIGS == <<"c","o","n","f","i","g","s">>
STAR_YML == <<"*",".","y","m","l">>
STAR_YAML == <<"*",".","y","a","m","l">>
A_YAML == <<"a",".","y","a","m","l">>
B_YML == <<"b",".","y","m","l">>
C_TXT == <<"c",".","t","x","t">>
TILDE == <<"~">>

Abs(comps) == [abs |-> TRUE, comps |-> comps]
Rel(comps) == [abs |-> FALSE, comps |-> comps]
EmptyStr == Rel(<<>>)

\* Path::join(name) / format!("{}/{}", dir, name) for one more component
Join(p, name) == [abs |-> p.abs, comps |-> Append(p.comps, name)]

\* the memoized home directory, "/h"
home_dir == Abs(<< <<"h">> >>)

----------------------------------------------------------------------------
(* The filesystem: Path::is_file, Path::is_dir, Path::exists *)

IsPrefix(p, q) ==
    /\ p.abs = q.abs
    /\ Len(p.comps) < Len(q.comps)
    /\ SubSeq(q.comps, 1, Len(p.comps)) = p.comps

IsFile(p) == p \in files

\* a directory exists where a file lies below it; "/" always does; the empty
\* string names nothing
IsDir(p) ==
    /\ p # EmptyStr
    /\ \/ p = Abs(<<>>)
       \/ \E f \in files : IsPrefix(p, f)

Exists(p) == IsFile(p) \/ IsDir(p)

----------------------------------------------------------------------------
(* Helpers of settings.rs *)

\* mutant: any filename passes for a settings filename
is_kubie_settings_name_any(p) == p.comps # <<>>

is_kubie_settings_name(p) ==
    /\ p.comps # <<>>
    /\ p.comps[Len(p.comps)] \in {KUBIE_YAML, KUBIE_YML}

parse_kubeconfig_env ==
    IF kubeconfig.set /\ kubeconfig.val # <<EmptyStr>>
    THEN kubeconfig.val
    ELSE <<>>

\* mutant: kubie.yml is tried before kubie.yaml
find_settings_in_dir_yml_first(dir) ==
    LET c1 == Join(dir, KUBIE_YML)
        c2 == Join(dir, KUBIE_YAML)
    IN  IF IsFile(c1) THEN <<c1>>
        ELSE IF IsFile(c2) THEN <<c2>>
        ELSE <<>>

\* Option<String>: <<>> is None, <<p>> is Some(p)
find_settings_in_dir(dir) ==
    LET c1 == Join(dir, KUBIE_YAML)
        c2 == Join(dir, KUBIE_YML)
    IN  IF IsFile(c1) THEN <<c1>>
        ELSE IF IsFile(c2) THEN <<c2>>
        ELSE <<>>

expanduser(s) ==
    IF ~s.abs /\ Len(s.comps) >= 2 /\ s.comps[1] = TILDE
    THEN [abs |-> TRUE, comps |-> home_dir.comps \o Tail(s.comps)]
    ELSE s

\* mutant: the *.yaml pattern of ~/.kube is left out
default_include_path_short ==
    << Join(Join(home_dir, DOT_KUBE), CONFIG),
       Join(Join(home_dir, DOT_KUBE), STAR_YML),
       Join(Join(Join(home_dir, DOT_KUBE), CONFIGS), STAR_YML),
       Join(Join(Join(home_dir, DOT_KUBE), CONFIGS), STAR_YAML),
       Join(Join(Join(home_dir, DOT_KUBE), KUBIE), STAR_YML),
       Join(Join(Join(home_dir, DOT_KUBE), KUBIE), STAR_YAML) >>

default_include_path ==
    << Join(Join(home_dir, DOT_KUBE), CONFIG),
       Join(Join(home_dir, DOT_KUBE), STAR_YML),
       Join(Join(home_dir, DOT_KUBE), STAR_YAML),
       Join(Join(Join(home_dir, DOT_KUBE), CONFIGS), STAR_YML),
       Join(Join(Join(home_dir, DOT_KUBE), CONFIGS), STAR_YAML),
       Join(Join(Join(home_dir, DOT_KUBE), KUBIE), STAR_YML),
       Join(Join(Join(home_dir, DOT_KUBE), KUBIE), STAR_YAML) >>

default_exclude_path == <<>>

ConfigsDefault == [include |-> default_include_path, exclude |-> default_exclude_path]

\* the directory Settings::path searches after KUBECONFIG (lines 94-96)
xdg_dir ==
    LET xdg_config == IF xdg.set THEN xdg.val ELSE Join(home_dir, DOT_CONFIG)
    IN  Join(xdg_config, KUBIE)

default_settings_path == Join(Join(home_dir, DOT_KUBE), KUBIE_YAML)

----------------------------------------------------------------------------
(* Settings::path *)

\* one iteration of the loop over the KUBECONFIG entries (lines 83-92)
path_entry ==
    /\ pc = "path"
    /\ idx <= Len(parse_kubeconfig_env)
    /\ LET entry == parse_kubeconfig_env[idx]
           found == find_settings_in_dir(entry)
       IN  IF is_kubie_settings_name(entry) /\ IsFile(entry)
           THEN /\ settings_path' = <<entry>>
                /\ pc' = "load"
                /\ idx' = 1
           ELSE IF found # <<>>
           THEN /\ settings_path' = found
                /\ pc' = "load"
                /\ idx' = 1
           ELSE /\ idx' = idx + 1
                /\ UNCHANGED <<settings_path, pc>>
    /\ UNCHANGED <<files, unreadable, kubeconfig, xdg, settings, base, paths, outcome>>

\* after the loop: the XDG directory, then the fixed default (lines 94-101)
path_fallback ==
    /\ pc = "path"
    /\ idx > Len(parse_kubeconfig_env)
    /\ LET found == find_settings_in_dir(xdg_dir)
       IN  settings_path' = IF found # <<>> THEN found ELSE <<default_settings_path>>
    /\ pc' = "load"
    /\ idx' = 1
    /\ UNCHANGED <<files, unreadable, kubeconfig, xdg, settings, base, paths, outcome>>

----------------------------------------------------------------------------
(* Settings::load *)

SeqsUpTo(S, n) == UNION { [1..k -> S] : k \in 0..n }

FileIncludeLists ==
    { <<>>,
      << Abs(<< <<"d">>, STAR_YAML >>) >>,
      << Rel(<< TILDE, DOT_KUBE, <<"*">> >>), Abs(<< <<"*">>, KUBIE_YAML >>) >> }

FileExcludeLists ==
    { <<>>,
      << Abs(<< <<"d">>, A_YAML >>) >>,
      << Abs(<< <<"d">>, <<"*">> >>), Abs(<< <<"d">>, A_YAML >>) >> }

\* what reading and parsing the settings file can give: an error opening it,
\* a parse error, or a Settings whose absent fields take the serde defaults
FileContents ==
    { [kind |-> "open_error", configs |-> ConfigsDefault],
      [kind |-> "parse_error", configs |-> ConfigsDefault],
      [kind |-> "ok", configs |-> ConfigsDefault] }
    \cup { [kind |-> "ok", configs |-> [include |-> i, exclude |-> e]] :
             i \in FileIncludeLists, e \in FileExcludeLists }

\* mutant: the settings path is put in front of the file's exclude entries
load_push_front(cfg, s) == [cfg EXCEPT !.exclude = <<s>> \o cfg.exclude]

load_push(cfg, s) == [cfg EXCEPT !.exclude = Append(cfg.exclude, s)]

load ==
    /\ pc = "load"
    /\ LET p == settings_path[1]
       IN  IF Exists(p)
           THEN \E content \in FileContents :
                    \* a directory opens, but reading it fails inside the parser
                    IF content.kind = "ok" /\ IsFile(p)
                    THEN /\ base' = content.configs
                         /\ settings' = load_push(content.configs, p)
                         /\ outcome' = "ok"
                         /\ pc' = "loaded"
                    ELSE /\ outcome' = "err"
                         /\ pc' = "load_failed"
                         /\ UNCHANGED <<settings, base>>
           ELSE /\ base' = ConfigsDefault
                /\ settings' = load_push(ConfigsDefault, p)
                /\ outcome' = "ok"
                /\ pc' = "loaded"
    /\ UNCHANGED <<files, unreadable, kubeconfig, xdg, idx, settings_path, paths>>

----------------------------------------------------------------------------
(* Inputs of the settings locator and loader *)

D == Abs(<< <<"d">> >>)
E == Abs(<< <<"e">> >>)
X == Abs(<< <<"x">> >>)

LoadFileUniverse ==
    { Join(D, KUBIE_YAML), Join(D, KUBIE_YML),
      Join(E, KUBIE_YML), Join(E, A_YAML),
      Join(Join(X, KUBIE), KUBIE_YAML),
      Join(Join(Join(home_dir, DOT_CONFIG), KUBIE), KUBIE_YML),
      Join(Rel(<<KUBIE>>), KUBIE_YAML),
      default_settings_path,
      Join(default_settings_path, <<"z">>) }

LoadEntryPool == { D, E, Join(D, KUBIE_YML), Join(E, A_YAML), EmptyStr }

\* no path is both a file and a directory
WellFormedFs(fs) == \A f \in fs, g \in fs : ~IsPrefix(f, g)

EnvValues(pool) ==
    { [set |-> FALSE, val |-> <<>>] }
    \cup { [set |-> TRUE, val |-> v] : v \in SeqsUpTo(pool, MaxEntries) \ {<<>>} }

NoSettings == [include |-> <<>>, exclude |-> <<>>]

InitLoad ==
    /\ files \in { fs \in SUBSET LoadFileUniverse : WellFormedFs(fs) }
    /\ unreadable = {}
    /\ kubeconfig \in EnvValues(LoadEntryPool)
    /\ xdg \in { [set |-> FALSE, val |-> EmptyStr], [set |-> TRUE, val |-> EmptyStr],
                 [set |-> TRUE, val |-> X] }
    /\ pc = "path"
    /\ idx = 1
    /\ settings_path = <<>>
    /\ settings = NoSettings
    /\ base = NoSettings
    /\ paths = {}
    /\ outcome = "none"

NextLoad == path_entry \/ path_fallback \/ load

SpecLoad == InitLoad /\ [][NextLoad]_vars

----------------------------------------------------------------------------
(* glob::glob, as get_kube_configs_paths uses it (default MatchOptions).    *)
(* A pattern is compiled component by component; the components drawn      *)
(* hold "*", "?" and "[...]" but no "**" and no "a-z" range.               *)

\* The position of the "]" that closes the class opened at pat[i], 0 when
\* Pattern::new finds none (ERROR_INVALID_RANGE).  A "]" right after "[" or
\* "[!" is a member of the class, not its end.
ClassClose(pat, i) ==
    LET n == Len(pat)
        from == IF i + 3 <= n /\ pat[i + 1] = "!" THEN i + 3
                ELSE IF i + 2 <= n /\ pat[i + 1] # "!" THEN i + 2
                ELSE n + 1
        closes == { k \in from..n : pat[k] = "]" }
    IN  IF closes = {} THEN 0
        ELSE CHOOSE k \in closes : \A m \in closes : k <= m

RECURSIVE ValidFrom(_, _)
ValidFrom(pat, i) ==
    IF i > Len(pat) THEN TRUE
    ELSE IF pat[i] = "["
         THEN ClassClose(pat, i) # 0 /\ ValidFrom(pat, ClassClose(pat, i) + 1)
         ELSE ValidFrom(pat, i + 1)

\* Pattern::new(component) succeeds
PatternValid(pat) == ValidFrom(pat, 1)

\* Pattern::matches: pat from position i against name from position j
RECURSIVE MatchFrom(_, _, _, _)
MatchFrom(pat, i, name, j) ==
    IF i > Len(pat) THEN j > Len(name)
    ELSE IF pat[i] = "*"
         THEN \E k \in j..(Len(name) + 1) : MatchFrom(pat, i + 1, name, k)
    ELSE IF j > Len(name) THEN FALSE
    ELSE IF pat[i] = "?"
         THEN MatchFrom(pat, i + 1, name, j + 1)
    ELSE IF pat[i] = "["
         THEN LET close == ClassClose(pat, i)
                  negated == pat[i + 1] = "!"
                  first == IF negated THEN i + 2 ELSE i + 1
                  within == \E k \in first..(close - 1) : pat[k] = name[j]
              IN  /\ (within # negated)
                  /\ MatchFrom(pat, close + 1, name, j + 1)
    ELSE pat[i] = name[j] /\ MatchFrom(pat, i + 1, name, j + 1)

Matches(pat, name) == MatchFrom(pat, 1, name, 1)

\* fill_todo's pattern_as_str: a component of plain characters only
IsLiteral(pat) == \A i \in 1..Len(pat) : pat[i] \notin {"*", "?", "["}

\* everything that exists: the files and the directories above them
Entries ==
    files \cup UNION { { [abs |-> f.abs, comps |-> SubSeq(f.comps, 1, k)] :
                            k \in 1..Len(f.comps) } : f \in files }

Children(dir) ==
    { q \in Entries : /\ q.abs = dir.abs
                      /\ Len(q.comps) = Len(dir.comps) + 1
                      /\ SubSeq(q.comps, 1, Len(dir.comps)) = dir.comps }

\* the walk starts at "/" or at ".", both directories
GlobIsDir(p) == p.comps = <<>> \/ IsDir(p)

\* fill_todo for component k of pat, from the paths S that matched so far:
\* a literal component is looked up (fs::metadata), any other lists the
\* directory (fs::read_dir) and keeps the children that match
RECURSIVE GlobFrom(_, _, _)
GlobFrom(pat, k, S) ==
    IF k > Len(pat.comps) THEN [err |-> FALSE, paths |-> S]
    ELSE LET c == pat.comps[k]
         IN  IF IsLiteral(c)
             THEN GlobFrom(pat, k + 1, { Join(p, c) : p \in { q \in S : Exists(Join(q, c)) } })
             ELSE IF \E p \in S : GlobIsDir(p) /\ p \in unreadable
                  THEN [err |-> TRUE, paths |-> {}]
                  ELSE GlobFrom(pat, k + 1,
                           UNION { { q \in Children(p) : Matches(c, q.comps[Len(q.comps)]) } :
                                     p \in { q \in S : GlobIsDir(q) } })

\* glob(pattern): a PatternError, a GlobError among the matches, or the matches
Glob(pat) ==
    IF \E k \in 1..Len(pat.comps) : ~PatternValid(pat.comps[k])
    THEN [err |-> TRUE, paths |-> {}]
    ELSE IF pat.comps = <<>> THEN [err |-> FALSE, paths |-> {}]
    ELSE GlobFrom(pat, 1, { [abs |-> pat.abs, comps |-> <<>>] })

\* format!("{}/{pattern}", entry.display())
FormatDirPattern(entry, pattern) ==
    IF entry.comps = <<>> THEN Abs(<<pattern>>) ELSE Join(entry, pattern)

----------------------------------------------------------------------------
(* Settings::get_kube_configs_paths *)

\* the call, on a loaded Settings or on one the caller built (line 122)
get_start ==
    /\ pc \in {"loaded", "ready"}
    /\ paths' = {}
    /\ idx' = 1
    /\ outcome' = "none"
    /\ pc' = "env"
    /\ UNCHANGED <<files, unreadable, kubeconfig, xdg, settings_path, settings, base>>

\* what one directory entry contributes (lines 128-135)
DirGlobs(entry) ==
    << Glob(FormatDirPattern(entry, STAR_YML)), Glob(FormatDirPattern(entry, STAR_YAML)) >>

DirMatches(entry) ==
    { p \in DirGlobs(entry)[1].paths \cup DirGlobs(entry)[2].paths :
        ~is_kubie_settings_name(p) }

\* mutant: a failed glob is skipped and the loop goes on
Fail_skipped ==
    /\ idx' = idx + 1
    /\ UNCHANGED <<pc, outcome, paths>>

\* the `?` after a glob or a match: the error leaves the function
Fail ==
    /\ outcome' = "err"
    /\ pc' = "done"
    /\ paths' = {}
    /\ UNCHANGED idx

\* one iteration of the loop over the KUBECONFIG entries (lines 124-137)
get_env_entry ==
    /\ pc = "env"
    /\ idx <= Len(parse_kubeconfig_env)
    /\ LET entry == parse_kubeconfig_env[idx]
       IN  IF IsFile(entry) /\ ~is_kubie_settings_name(entry)
           THEN /\ paths' = paths \cup {entry}
                /\ idx' = idx + 1
                /\ UNCHANGED <<pc, outcome>>
           ELSE IF IsDir(entry)
           THEN IF DirGlobs(entry)[1].err \/ DirGlobs(entry)[2].err
                THEN Fail
                ELSE /\ paths' = paths \cup DirMatches(entry)
                     /\ idx' = idx + 1
                     /\ UNCHANGED <<pc, outcome>>
           ELSE /\ idx' = idx + 1
                /\ UNCHANGED <<pc, outcome, paths>>
    /\ UNCHANGED <<files, unreadable, kubeconfig, xdg, settings_path, settings, base>>

get_env_done ==
    /\ pc = "env"
    /\ idx > Len(parse_kubeconfig_env)
    /\ pc' = "include"
    /\ idx' = 1
    /\ UNCHANGED <<files, unreadable, kubeconfig, xdg, settings_path, settings, base,
                   paths, outcome>>

\* one iteration of the loop over configs.include (lines 139-143)
get_include ==
    /\ pc = "include"
    /\ idx <= Len(settings.include)
    /\ LET g == Glob(expanduser(settings.include[idx]))
       IN  IF g.err
           THEN Fail
           ELSE /\ paths' = paths \cup g.paths
                /\ idx' = idx + 1
                /\ UNCHANGED <<pc, outcome>>
    /\ UNCHANGED <<files, unreadable, kubeconfig, xdg, settings_path, settings, base>>

get_include_done ==
    /\ pc = "include"
    /\ idx > Len(settings.include)
    /\ pc' = "exclude"
    /\ idx' = 1
    /\ UNCHANGED <<files, unreadable, kubeconfig, xdg, settings_path, settings, base,
                   paths, outcome>>

\* mutant: the loop over configs.exclude ends after its first pattern
get_exclude_first_only ==
    /\ pc = "exclude"
    /\ idx <= Len(settings.exclude)
    /\ LET g == Glob(expanduser(settings.exclude[idx]))
       IN  IF g.err
           THEN Fail
           ELSE /\ paths' = paths \ g.paths
                /\ idx' = Len(settings.exclude) + 1
                /\ UNCHANGED <<pc, outcome>>
    /\ UNCHANGED <<files, unreadable, kubeconfig, xdg, settings_path, settings, base>>

\* one iteration of the loop over configs.exclude (lines 145-149)
get_exclude ==
    /\ pc = "exclude"
    /\ idx <= Len(settings.exclude)
    /\ LET g == Glob(expanduser(settings.exclude[idx]))
       IN  IF g.err
           THEN Fail
           ELSE /\ paths' = paths \ g.paths
                /\ idx' = idx + 1
                /\ UNCHANGED <<pc, outcome>>
    /\ UNCHANGED <<files, unreadable, kubeconfig, xdg, settings_path, settings, base>>

\* Ok(paths) (line 151)
get_return ==
    /\ pc = "exclude"
    /\ idx > Len(settings.exclude)
    /\ outcome' = "ok"
    /\ pc' = "done"
    /\ UNCHANGED <<files, unreadable, kubeconfig, xdg, idx, settings_path, settings,
                   base, paths>>

get_kube_configs_paths ==
    \/ get_start
    \/ get_env_entry
    \/ get_env_done
    \/ get_include
    \/ get_include_done
    \/ get_exclude
    \/ get_return

----------------------------------------------------------------------------
(* Inputs of the config set resolver: a Settings the caller builds, as the  *)
(* tests of settings.rs do                                                 *)

\* a directory whose name, read as a glob pattern, matches "a1" and not itself
A_1 == Abs(<< <<"a","[","1","]">> >>)
\* a directory whose name is no valid glob pattern
M_ == Abs(<< <<"m","[">> >>)

ResolveFileUniverse ==
    { Join(D, A_YAML), Join(D, B_YML), Join(D, C_TXT), Join(D, KUBIE_YAML),
      Join(Join(home_dir, DOT_KUBE), CONFIG),
      Join(A_1, B_YML),
      Join(M_, A_YAML) }

ResolveEntryPool == { D, Join(D, A_YAML), Join(D, KUBIE_YAML), A_1, M_ }

BuiltIncludeLists ==
    { <<>>,
      << Join(D, STAR_YAML) >>,
      << Rel(<< TILDE, DOT_KUBE, CONFIG >>), Join(D, <<"[","a","b","]",".","y","*">>) >>,
      << Join(D, <<"[">>) >> }

BuiltExcludeLists ==
    { <<>>,
      << Join(D, <<"k","*">>), Join(D, <<"?",".","y","m","l">>) >>,
      << Join(D, A_YAML), Join(D, <<"[","!">>) >> }

InitResolve ==
    /\ files \in SUBSET ResolveFileUniverse
    /\ unreadable \in { {}, {D} }
    /\ kubeconfig \in EnvValues(ResolveEntryPool)
    /\ xdg = [set |-> FALSE, val |-> EmptyStr]
    /\ pc = "ready"
    /\ idx = 1
    /\ settings_path = <<>>
    /\ settings \in { [include |-> i, exclude |-> e] :
                        i \in BuiltIncludeLists, e \in BuiltExcludeLists }
    /\ base = NoSettings
    /\ paths = {}
    /\ outcome = "none"

SpecResolve == InitResolve /\ [][get_kube_configs_paths]_vars

----------------------------------------------------------------------------
(* Claims about Settings::path and Settings::load, under SpecLoad *)

HasSettingsName(p) ==
    /\ p.comps # <<>>
    /\ \/ p.comps[Len(p.comps)] = KUBIE_YAML
       \/ p.comps[Len(p.comps)] = KUBIE_YML

\* the first of <dir>/kubie.yaml, <dir>/kubie.yml that is a regular file
SettingsIn(dir) ==
    IF Join(dir, KUBIE_YAML) \in files THEN <<Join(dir, KUBIE_YAML)>>
    ELSE IF Join(dir, KUBIE_YML) \in files THEN <<Join(dir, KUBIE_YML)>>
    ELSE <<>>

\* what one KUBECONFIG entry yields: itself, or a settings file inside it
EntryYields(e) ==
    IF HasSettingsName(e) /\ e \in files THEN <<e>> ELSE SettingsIn(e)

EnvEntries ==
    IF kubeconfig.set /\ kubeconfig.val # <<EmptyStr>> THEN kubeconfig.val ELSE <<>>

YieldingEntries == { i \in 1..Len(EnvEntries) : EntryYields(EnvEntries[i]) # <<>> }

FirstYielding == CHOOSE i \in YieldingEntries : \A j \in YieldingEntries : i <= j

HomeKubeKubieYaml == Abs(<< <<"h">>, DOT_KUBE, KUBIE_YAML >>)

\* the settings path by precedence, the XDG directory being `dir`
PathByPrecedence(dir) ==
    IF YieldingEntries # {} THEN EntryYields(EnvEntries[FirstYielding])
    ELSE IF SettingsIn(dir) # <<>> THEN SettingsIn(dir)
    ELSE <<HomeKubeKubieYaml>>

\* <XDG_CONFIG_HOME>/kubie, <home>/.config/kubie when the variable is unset
XdgKubieOfValue ==
    IF xdg.set THEN Join(xdg.val, KUBIE) ELSE Abs(<< <<"h">>, DOT_CONFIG, KUBIE >>)

\* the same, an empty value counting as unset
XdgKubieNonEmpty ==
    IF xdg.set /\ xdg.val # EmptyStr THEN Join(xdg.val, KUBIE)
    ELSE Abs(<< <<"h">>, DOT_CONFIG, KUBIE >>)

\* C4: Settings::path() returns the yield of the first KUBECONFIG entry that
\* yields one (the entry itself if it is a settings-named regular file, else
\* the first of <entry>/kubie.yaml, <entry>/kubie.yml that is a regular file),
\* else the first settings file of <xdg>/kubie, else <home>/.kube/kubie.yaml.
C4_PathPrecedence ==
    settings_path # <<>> => settings_path = PathByPrecedence(XdgKubieOfValue)

\* C4 witness: two entries both yield, differently, and XDG holds a settings
\* file too; path() has returned
C4_Witness ==
    /\ settings_path # <<>>
    /\ Len(EnvEntries) = 2
    /\ EntryYields(EnvEntries[1]) # <<>>
    /\ EntryYields(EnvEntries[2]) # <<>>
    /\ EntryYields(EnvEntries[1]) # EntryYields(EnvEntries[2])
    /\ SettingsIn(XdgKubieOfValue) # <<>>
    /\ Join(EnvEntries[1], KUBIE_YAML) \in files
    /\ Join(EnvEntries[1], KUBIE_YML) \in files

\* C5: when KUBECONFIG yields nothing, the directory searched is
\* <XDG_CONFIG_HOME>/kubie if the variable is set and non-empty, and
\* <home>/.config/kubie if it is unset or empty.
C5_XdgEmptyIsUnset ==
    (settings_path # <<>> /\ YieldingEntries = {})
        => settings_path = PathByPrecedence(XdgKubieNonEmpty)

\* C6: the path Settings::path() returns is named kubie.yaml or kubie.yml
C6_PathHasSettingsName ==
    settings_path # <<>> => HasSettingsName(settings_path[1])

\* C6 witness: the first KUBECONFIG entry is a regular file with another
\* name, and path() has returned
C6_Witness ==
    /\ settings_path # <<>>
    /\ EnvEntries # <<>>
    /\ EnvEntries[1] \in files
    /\ ~HasSettingsName(EnvEntries[1])

\* C3: after a successful load, configs.exclude is the exclude list that was
\* parsed or defaulted followed by exactly one more element, the string
\* Settings::path() returned.
C3_ExcludeEndsWithPath ==
    pc = "loaded" =>
        /\ Len(settings.exclude) = Len(base.exclude) + 1
        /\ settings.exclude[Len(settings.exclude)] = settings_path[1]
        /\ SubSeq(settings.exclude, 1, Len(base.exclude)) = base.exclude

\* C3 witness: the settings file existed and its exclude list was not empty
C3_Witness ==
    /\ pc = "loaded"
    /\ settings_path[1] \in files
    /\ Len(base.exclude) = 2

SevenDefaultIncludes ==
    << Abs(<< <<"h">>, DOT_KUBE, CONFIG >>),
       Abs(<< <<"h">>, DOT_KUBE, STAR_YML >>),
       Abs(<< <<"h">>, DOT_KUBE, STAR_YAML >>),
       Abs(<< <<"h">>, DOT_KUBE, CONFIGS, STAR_YML >>),
       Abs(<< <<"h">>, DOT_KUBE, CONFIGS, STAR_YAML >>),
       Abs(<< <<"h">>, DOT_KUBE, KUBIE, STAR_YML >>),
       Abs(<< <<"h">>, DOT_KUBE, KUBIE, STAR_YAML >>) >>

\* C10: load does not fail on a missing settings file: it returns the
\* defaults (the seven include patterns, exclude holding only the settings
\* path); on a regular file it returns a Settings or an error and no Settings.
C10_MissingFileGivesDefaults ==
    pc \in {"loaded", "load_failed"} =>
        /\ (settings_path[1] \notin Entries) =>
               /\ pc = "loaded"
               /\ outcome = "ok"
               /\ settings.include = SevenDefaultIncludes
               /\ settings.exclude = settings_path
        /\ (settings_path[1] \in files) =>
               \/ pc = "loaded" /\ outcome = "ok"
               \/ pc = "load_failed" /\ outcome = "err" /\ settings = NoSettings

\* C10 witness: load returned on a settings path that does not exist
C10_Witness ==
    /\ pc = "loaded"
    /\ settings_path[1] \notin Entries
    /\ settings_path[1] = HomeKubeKubieYaml

----------------------------------------------------------------------------
(* Claims about Settings::get_kube_configs_paths, under SpecResolve *)

Returned == pc = "done" /\ outcome = "ok"

\* the paths the KUBECONFIG phase collects, in closed form
EnvSourced ==
    UNION { IF EnvEntries[i] \in files /\ ~HasSettingsName(EnvEntries[i])
            THEN { EnvEntries[i] }
            ELSE IF IsDir(EnvEntries[i])
                 THEN { p \in Glob(FormatDirPattern(EnvEntries[i], STAR_YML)).paths
                               \cup Glob(FormatDirPattern(EnvEntries[i], STAR_YAML)).paths :
                          ~HasSettingsName(p) }
                 ELSE {} : i \in 1..Len(EnvEntries) }

IncludeMatches ==
    UNION { Glob(expanduser(settings.include[i])).paths : i \in 1..Len(settings.include) }

ExcludeMatches ==
    UNION { Glob(expanduser(settings.exclude[i])).paths : i \in 1..Len(settings.exclude) }

\* C1: the returned set holds no path named kubie.yaml or kubie.yml
C1_NoSettingsNamedPath ==
    Returned => \A p \in paths : ~HasSettingsName(p)

\* C7: the returned set is (environment paths union include matches) minus
\* exclude matches: no path an exclude pattern matches is returned
C7_ExcludeAfterAllIncludes ==
    Returned => paths = (EnvSourced \cup IncludeMatches) \ ExcludeMatches

\* C7 witness: a path came from the environment and from an include pattern,
\* the second exclude pattern matches it, and another path is returned
C7_Witness ==
    /\ Returned
    /\ Len(settings.exclude) = 2
    /\ \E p \in EnvSourced \cap IncludeMatches :
           /\ p \in Glob(expanduser(settings.exclude[2])).paths
           /\ p \notin Glob(expanduser(settings.exclude[1])).paths
    /\ paths # {}

\* some glob of the call fails: a pattern of a directory entry, of
\* configs.include or of configs.exclude
SomeGlobFails ==
    \/ \E i \in 1..Len(EnvEntries) :
           /\ ~(EnvEntries[i] \in files /\ ~HasSettingsName(EnvEntries[i]))
           /\ IsDir(EnvEntries[i])
           /\ \/ Glob(FormatDirPattern(EnvEntries[i], STAR_YML)).err
              \/ Glob(FormatDirPattern(EnvEntries[i], STAR_YAML)).err
    \/ \E i \in 1..Len(settings.include) : Glob(expanduser(settings.include[i])).err
    \/ \E i \in 1..Len(settings.exclude) : Glob(expanduser(settings.exclude[i])).err

\* C8: if any glob of the call fails, the call returns an error and no paths,
\* whatever had been collected
C8_GlobFailureFailsCall ==
    (pc = "done" /\ SomeGlobFails) => (outcome = "err" /\ paths = {})

\* C8 witness: the first entry is a config file that was collected, the
\* second a directory whose pattern is malformed, and the call has failed
C8_Witness ==
    /\ pc = "done"
    /\ outcome = "err"
    /\ Len(EnvEntries) = 2
    /\ EnvEntries[1] \in files
    /\ ~HasSettingsName(EnvEntries[1])
    /\ IsDir(EnvEntries[2])
    /\ Glob(FormatDirPattern(EnvEntries[2], STAR_YML)).err
    /\ unreadable = {}

EndsWith(name, suffix) ==
    /\ Len(name) >= Len(suffix)
    /\ SubSeq(name, Len(name) - Len(suffix) + 1, Len(name)) = suffix

\* the direct children of dir named *.yml or *.yaml, settings files aside
YamlChildren(dir) ==
    { q \in Entries :
        /\ q.abs = dir.abs
        /\ Len(q.comps) = Len(dir.comps) + 1
        /\ SubSeq(q.comps, 1, Len(dir.comps)) = dir.comps
        /\ \/ EndsWith(q.comps[Len(q.comps)], <<".","y","m","l">>)
           \/ EndsWith(q.comps[Len(q.comps)], <<".","y","a","m","l">>)
        /\ ~HasSettingsName(q) }

\* the environment-sourced set as C9 states it
EnvSetAsClaimed ==
    UNION { IF EnvEntries[i] \in files
            THEN IF HasSettingsName(EnvEntries[i]) THEN {} ELSE { EnvEntries[i] }
            ELSE IF IsDir(EnvEntries[i]) THEN YamlChildren(EnvEntries[i])
            ELSE {} : i \in 1..Len(EnvEntries) }

\* C9: with empty include and exclude lists a call that returns a set returns
\* the config-file entries plus, for each directory entry, exactly its
\* direct children named *.yml or *.yaml, settings files aside
C9_EnvSetExact ==
    (Returned /\ settings.include = <<>> /\ settings.exclude = <<>>)
        => paths = EnvSetAsClaimed

----------------------------------------------------------------------------
(* The whole flow: Settings::load, then get_kube_configs_paths on the      *)
(* Settings it returned, same environment and filesystem                   *)

FileUniverse ==
    { Join(A_1, KUBIE_YAML), Join(D, KUBIE_YAML), Join(D, A_YAML),
      default_settings_path,
      Join(Join(home_dir, DOT_KUBE), CONFIG) }

EntryPool == { D, A_1, Join(D, A_YAML) }

Init ==
    /\ files \in SUBSET FileUniverse
    /\ unreadable = {}
    /\ kubeconfig \in EnvValues(EntryPool)
    /\ xdg \in { [set |-> FALSE, val |-> EmptyStr], [set |-> TRUE, val |-> X] }
    /\ pc = "path"
    /\ idx = 1
    /\ settings_path = <<>>
    /\ settings = NoSettings
    /\ base = NoSettings
    /\ paths = {}
    /\ outcome = "none"

Next == path_entry \/ path_fallback \/ load \/ get_kube_configs_paths

Spec == Init /\ [][Next]_vars

\* C2: after a successful load, the set get_kube_configs_paths returns on the
\* loaded Settings does not hold the settings path load resolved
C2_SettingsFileNotReturned ==
    (Returned /\ settings_path # <<>>) => settings_path[1] \notin paths

====
